---- MODULE Spec2Model ----
(***************************************************************************)
(* Model of the meeting-authority service of src/src/server.js: the three  *)
(* request handlers create-meeting, join-meeting and end-meeting, the      *)
(* health route, the `meetings` table they share, the remote rooms they    *)
(* delete, the tokens they sign and the shutdown of the server on a        *)
(* signal.  A handler runs from one await to the next in one step;         *)
(* handlers of different requests interleave at the awaits.                *)
(***************************************************************************)
EXTENDS Integers, FiniteSets, TLC

\* ------------------------------------------------------------------ bounds
NumReqs == 2       \* requests that can be in flight at once
NumCodes == 1      \* meeting codes the generator can draw
NumUsers == 2      \* user identities
NumPasswords == 1  \* passwords the generator can draw
NumHex == 2        \* values of the random suffix of a room name

Reqs == 1..NumReqs
Codes == 1..NumCodes
Users == 1..NumUsers
Passwords == 1..NumPasswords
Hexes == 1..NumHex

\* A field absent from the request body (undefined, or falsy for the !x tests).
Missing == 0

\* A password no create-meeting generated.
WrongPassword == NumPasswords + 1

\* What a caller can send as password.
RequestPasswords == Passwords \cup {Missing, WrongPassword}

\* ------------------------------------------------------------------ values
\* `room_${meetingId}_${hex}`: the name embeds the meeting code.
RoomNameOf(meetingId, hex) == <<meetingId, hex>>

NoRoom == <<0, 0>>

RoomNames == {RoomNameOf(c, h) : c \in Codes, h \in Hexes}

Embeds(roomName, meetingId) == roomName[1] = meetingId

\* A row of the `meetings` table; NoRow is the null the client returns as data.
NoRow ==
    [exists |-> FALSE, password |-> 0, livekit_room |-> NoRoom, host_id |-> 0,
     is_active |-> FALSE]

\* Row with the flag left false: a row join-meeting's filter does not match.
RowInactive(password, roomName, userId) ==
    [exists |-> TRUE, password |-> password, livekit_room |-> roomName,
     host_id |-> userId, is_active |-> FALSE]

Row(password, roomName, userId) ==
    [exists |-> TRUE, password |-> password, livekit_room |-> roomName,
     host_id |-> userId, is_active |-> TRUE]

\* A row left in the table with is_active = false (the column of the schema;
\* no handler writes false).
InactiveRow(c) ==
    [exists |-> TRUE, password |-> 1, livekit_room |-> RoomNameOf(c, 1),
     host_id |-> 1, is_active |-> FALSE]

NoToken ==
    [issued |-> FALSE, identity |-> 0, name |-> 0, ttl |-> 0, roomJoin |-> FALSE,
     room |-> NoRoom, canPublish |-> FALSE, canSubscribe |-> FALSE,
     canPublishData |-> FALSE, roomAdmin |-> FALSE]

TokenTtl == 7200

\* createLiveKitToken granting room-admin to everyone.
createLiveKitTokenAdmin(roomName, userId, isHost) ==
    [issued |-> TRUE, identity |-> userId, name |-> userId, ttl |-> TokenTtl,
     roomJoin |-> TRUE, room |-> roomName, canPublish |-> TRUE,
     canSubscribe |-> TRUE, canPublishData |-> TRUE, roomAdmin |-> TRUE]

createLiveKitToken(roomName, userId, isHost) ==
    [issued |-> TRUE, identity |-> userId, name |-> userId, ttl |-> TokenTtl,
     roomJoin |-> TRUE, room |-> roomName, canPublish |-> TRUE,
     canSubscribe |-> TRUE, canPublishData |-> TRUE, roomAdmin |-> isHost]

\* The HTTP response of a request; status 0 while none has been sent.
NoResp ==
    [status |-> 0, error |-> "", meetingId |-> 0, password |-> 0,
     roomName |-> NoRoom, token |-> NoToken, isHost |-> FALSE, success |-> FALSE,
     ok |-> FALSE]

ErrorResp(status, message) == [NoResp EXCEPT !.status = status, !.error = message]

\* A request slot: the route, the handler's position, its constants
\* (meetingId, password, userId, roomName, meeting, error, isHost) and the
\* response it sent.  afterEnd is history: the request arrived after an
\* end-meeting for its code had responded 200; lookupAfterEnd is history of
\* an end-meeting past its host check: its lookup returned after one had.
Idle ==
    [op |-> "none", pc |-> "idle", meetingId |-> 0, password |-> 0, userId |-> 0,
     roomName |-> NoRoom, meeting |-> NoRow, error |-> "", isHost |-> FALSE,
     afterEnd |-> FALSE, lookupAfterEnd |-> FALSE, resp |-> NoResp]

\* Outcomes of a call to the registry (the client returns {data, error}) and
\* of a call that throws (token signing, remote room deletion).
RegistryOutcomes == {"ok", "error"}
CallOutcomes == {"ok", "throw"}

\* ------------------------------------------------------------------ state
\* db            the `meetings` table, by meeting_code (unique)
\* deletedRooms  the rooms a deleteRoom call has removed from the SFU
\* req           the request slots
\* ended         history: the last end-meeting for the code responded 200 and
\*               no create-meeting has inserted the code since
\* created       history: the password a create-meeting inserted for the
\*               code, 0 once an end-meeting has run its delete for the code
\* server        the HTTP server of the process: "listening", "closing" once a
\*               signal handler has called server.close, "exited" once the
\*               close callback has called process.exit(0), "crashed" once
\*               an uncaughtException or unhandledRejection handler has
\*               called process.exit(1)
VARIABLES db, deletedRooms, req, ended, created, server

vars == <<db, deletedRooms, req, ended, created, server>>

\* The table the service finds when it starts: empty, or holding one row
\* that was deactivated outside the service.
InitialTables ==
    {[c \in Codes |-> NoRow]}
        \cup {[c \in Codes |-> IF c = k THEN InactiveRow(c) ELSE NoRow] : k \in Codes}

Init ==
    /\ db \in InitialTables
    /\ deletedRooms = {}
    /\ req = [r \in Reqs |-> Idle]
    /\ ended = [c \in Codes |-> FALSE]
    /\ created = [c \in Codes |-> 0]
    /\ server = "listening"

\* ------------------------------------------------------------------ registry
\* InsertError for a table without the unique constraint on the code.
InsertErrorNoConstraint(table, code, outcome) ==
    IF outcome = "error" THEN "registry failure" ELSE ""

\* insert(record): the unique constraint on the code rejects a second row.
InsertError(table, code, outcome) ==
    IF outcome = "error" THEN "registry failure"
    ELSE IF table[code].exists THEN "duplicate key"
    ELSE ""

\* SelectSingle without the is_active filter.
SelectSingleAnyState(table, code, activeOnly, outcome) ==
    IF outcome = "error" THEN [data |-> NoRow, error |-> "registry failure"]
    ELSE IF code \in Codes /\ table[code].exists
         THEN [data |-> table[code], error |-> ""]
         ELSE [data |-> NoRow, error |-> "no rows"]

\* select('*').eq('meeting_code', code)[.eq('is_active', true)].single():
\* {data, error}; no row (or a failed call) gives data null and an error.
SelectSingle(table, code, activeOnly, outcome) ==
    IF outcome = "error" THEN [data |-> NoRow, error |-> "registry failure"]
    ELSE IF /\ code \in Codes
            /\ table[code].exists
            /\ (activeOnly => table[code].is_active)
         THEN [data |-> table[code], error |-> ""]
         ELSE [data |-> NoRow, error |-> "no rows"]

\* DeleteByCode as an update that clears is_active and keeps the row.
DeactivateByCode(table, code, outcome) ==
    IF outcome = "ok" /\ code \in Codes
    THEN [table EXCEPT ![code].is_active = FALSE]
    ELSE table

\* delete().eq('meeting_code', code): the table afterwards; a failed call
\* leaves it as it was and returns an error object.
DeleteByCode(table, code, outcome) ==
    IF outcome = "ok" /\ code \in Codes THEN [table EXCEPT ![code] = NoRow]
    ELSE table

\* ------------------------------------------------------------------ create-meeting
\* res.status(..).json(..): the handler returns; what stays of the request is
\* its body, the error the registry returned and the response sent.
Respond(r, q, resp) ==
    req' = [req EXCEPT ![r] =
              [Idle EXCEPT !.op = q.op, !.pc = "done",
                           !.meetingId = IF q.op = "create" THEN 0 ELSE q.meetingId,
                           !.password = IF q.op = "create" THEN 0 ELSE q.password,
                           !.userId = q.userId, !.error = q.error,
                           !.afterEnd = q.afterEnd, !.resp = resp]]

CreateResponse(q, token) ==
    [NoResp EXCEPT !.status = 200, !.meetingId = q.meetingId,
                   !.password = q.password, !.roomName = q.roomName,
                   !.token = token]

\* The request arrives; the handler runs to the await of the insert.
CreateMeeting(r) ==
    /\ server = "listening"
    /\ req[r].pc = "idle"
    /\ \E userId \in Users \cup {Missing} :
         LET q == [Idle EXCEPT !.op = "create", !.userId = userId] IN
         IF userId = Missing
         THEN Respond(r, q, ErrorResp(400, "userId required"))
         ELSE \E c \in Codes, p \in Passwords, h \in Hexes :
                req' = [req EXCEPT ![r] =
                          [q EXCEPT !.pc = "insert", !.meetingId = c,
                                    !.password = p,
                                    !.roomName = RoomNameOf(c, h)]]
    /\ UNCHANGED <<db, deletedRooms, ended, created, server>>

\* CreateInsert for a registry that reports an error although it stored the row.
CreateInsertApplied(r) ==
    /\ req[r].op = "create"
    /\ req[r].pc = "insert"
    /\ \E outcome \in RegistryOutcomes :
         LET q == req[r]
             error == InsertError(db, q.meetingId, outcome)
         IN /\ db' = IF error = "duplicate key" THEN db
                     ELSE [db EXCEPT ![q.meetingId] =
                               Row(q.password, q.roomName, q.userId)]
            /\ ended' = [ended EXCEPT ![q.meetingId] = FALSE]
            /\ created' = [created EXCEPT ![q.meetingId] = q.password]
            /\ IF error # ""
               THEN Respond(r, [q EXCEPT !.error = error], ErrorResp(500, error))
               ELSE req' = [req EXCEPT ![r] = [q EXCEPT !.pc = "token"]]
    /\ UNCHANGED <<deletedRooms, server>>

\* The insert returns; on success the handler goes on to sign the token.
CreateInsert(r) ==
    /\ req[r].op = "create"
    /\ req[r].pc = "insert"
    /\ \E outcome \in RegistryOutcomes :
         LET q == req[r]
             error == InsertError(db, q.meetingId, outcome)
         IN IF error # ""
            THEN /\ Respond(r, [q EXCEPT !.error = error], ErrorResp(500, error))
                 /\ UNCHANGED <<db, ended, created>>
            ELSE /\ db' = [db EXCEPT ![q.meetingId] =
                                 Row(q.password, q.roomName, q.userId)]
                 /\ req' = [req EXCEPT ![r] = [q EXCEPT !.pc = "token"]]
                 /\ ended' = [ended EXCEPT ![q.meetingId] = FALSE]
                 /\ created' = [created EXCEPT ![q.meetingId] = q.password]
    /\ UNCHANGED <<deletedRooms, server>>

\* CreateToken deleting the row it inserted when signing throws.
CreateTokenRollback(r) ==
    /\ req[r].op = "create"
    /\ req[r].pc = "token"
    /\ \E outcome \in CallOutcomes :
         LET q == req[r] IN
         IF outcome = "throw"
         THEN /\ Respond(r, q, ErrorResp(500, "signing failure"))
              /\ db' = DeleteByCode(db, q.meetingId, "ok")
         ELSE /\ Respond(r, q, CreateResponse(q, createLiveKitToken(q.roomName, q.userId, TRUE)))
              /\ db' = db
    /\ UNCHANGED <<deletedRooms, ended, created, server>>

\* createLiveKitToken returns or throws.
CreateToken(r) ==
    /\ req[r].op = "create"
    /\ req[r].pc = "token"
    /\ \E outcome \in CallOutcomes :
         LET q == req[r] IN
         IF outcome = "throw"
         THEN Respond(r, q, ErrorResp(500, "signing failure"))
         ELSE Respond(r, q, CreateResponse(q, createLiveKitToken(q.roomName, q.userId, TRUE)))
    /\ UNCHANGED <<db, deletedRooms, ended, created, server>>

\* ------------------------------------------------------------------ join-meeting
\* MissingFields testing meetingId alone.
MissingMeetingIdOnly(meetingId, userId) == meetingId = Missing

\* if (!meetingId || !userId)
MissingFields(meetingId, userId) == meetingId = Missing \/ userId = Missing

\* An end-meeting for the code has responded 200, no insert of it since.
Ended(meetingId) == meetingId \in Codes /\ ended[meetingId]

IsHost(meeting, userId) == meeting.host_id = userId

\* InvalidPassword checking the password only when one was sent.
InvalidPasswordIfSent(meeting, password, userId) ==
    password # Missing /\ meeting.password # password /\ meeting.host_id # userId

\* InvalidPassword without the host bypass.
InvalidPasswordNoBypass(meeting, password, userId) == meeting.password # password

\* The password check of join-meeting: TRUE when the caller is refused.
InvalidPassword(meeting, password, userId) ==
    meeting.password # password /\ meeting.host_id # userId

JoinResponse(token, isHost) ==
    [NoResp EXCEPT !.status = 200, !.token = token, !.isHost = isHost]

JoinMeeting(r) ==
    /\ server = "listening"
    /\ req[r].pc = "idle"
    /\ \E meetingId \in Codes \cup {Missing}, password \in RequestPasswords,
          userId \in Users \cup {Missing} :
         LET q == [Idle EXCEPT !.op = "join", !.meetingId = meetingId,
                               !.password = password, !.userId = userId,
                               !.afterEnd = Ended(meetingId)]
         IN IF MissingFields(meetingId, userId)
            THEN Respond(r, q, ErrorResp(400, "Missing fields"))
            ELSE req' = [req EXCEPT ![r] = [q EXCEPT !.pc = "select"]]
    /\ UNCHANGED <<db, deletedRooms, ended, created, server>>

\* The lookup returns; 404, 403, or on to signing a token for the stored room.
JoinSelect(r) ==
    /\ req[r].op = "join"
    /\ req[r].pc = "select"
    /\ \E outcome \in RegistryOutcomes :
         LET got == SelectSingle(db, req[r].meetingId, TRUE, outcome)
             q == [req[r] EXCEPT !.meeting = got.data, !.error = got.error]
         IN IF q.error # "" \/ ~q.meeting.exists
            THEN Respond(r, q, ErrorResp(404, "Meeting not found or inactive"))
            ELSE IF InvalidPassword(q.meeting, q.password, q.userId)
            THEN Respond(r, q, ErrorResp(403, "Invalid password"))
            ELSE req' = [req EXCEPT ![r] =
                           [q EXCEPT !.pc = "token",
                                     !.isHost = IsHost(q.meeting, q.userId)]]
    /\ UNCHANGED <<db, deletedRooms, ended, created, server>>

JoinToken(r) ==
    /\ req[r].op = "join"
    /\ req[r].pc = "token"
    /\ \E outcome \in CallOutcomes :
         LET q == req[r] IN
         IF outcome = "throw"
         THEN Respond(r, q, ErrorResp(500, "signing failure"))
         ELSE Respond(r, q, JoinResponse(
                  createLiveKitToken(q.meeting.livekit_room, q.userId, q.isHost),
                  q.isHost))
    /\ UNCHANGED <<db, deletedRooms, ended, created, server>>

\* ------------------------------------------------------------------ end-meeting
\* NotAuthorized testing only that the row exists.
NotAuthorizedRowOnly(meeting, userId) == ~meeting.exists

NotAuthorized(meeting, userId) == ~meeting.exists \/ meeting.host_id # userId

EndResponse == [NoResp EXCEPT !.status = 200, !.success = TRUE]

\* No field is validated: the handler goes straight to the lookup.
EndMeeting(r) ==
    /\ server = "listening"
    /\ req[r].pc = "idle"
    /\ \E meetingId \in Codes \cup {Missing}, userId \in Users \cup {Missing} :
         req' = [req EXCEPT ![r] =
                   [Idle EXCEPT !.op = "end", !.pc = "select",
                                !.meetingId = meetingId, !.userId = userId,
                                !.afterEnd = Ended(meetingId)]]
    /\ UNCHANGED <<db, deletedRooms, ended, created, server>>

\* The lookup (any is_active) returns; only data is read, not error.
EndSelect(r) ==
    /\ req[r].op = "end"
    /\ req[r].pc = "select"
    /\ \E outcome \in RegistryOutcomes :
         LET got == SelectSingle(db, req[r].meetingId, FALSE, outcome)
             q == [req[r] EXCEPT !.meeting = got.data]
         IN IF NotAuthorized(q.meeting, q.userId)
            THEN Respond(r, q, ErrorResp(403, "Not authorized"))
            ELSE req' = [req EXCEPT ![r] =
                           [q EXCEPT !.pc = "deleteRoom",
                                     !.lookupAfterEnd = Ended(q.meetingId)]]
    /\ UNCHANGED <<db, deletedRooms, ended, created, server>>

\* EndDeleteRoom with the call outside every try: a throw rejects the
\* handler's promise, which nothing awaits, and the process-level handler
\* exits.
EndDeleteRoomUncaught(r) ==
    /\ req[r].op = "end"
    /\ req[r].pc = "deleteRoom"
    /\ \E outcome \in CallOutcomes :
         IF outcome = "ok"
         THEN /\ deletedRooms' = deletedRooms \cup {req[r].meeting.livekit_room}
              /\ req' = [req EXCEPT ![r].pc = "delete"]
              /\ server' = server
         ELSE /\ server' = "crashed"
              /\ UNCHANGED <<deletedRooms, req>>
    /\ UNCHANGED <<db, ended, created>>

\* roomService.deleteRoom returns or throws; a throw is caught and logged.
EndDeleteRoom(r) ==
    /\ req[r].op = "end"
    /\ req[r].pc = "deleteRoom"
    /\ \E outcome \in CallOutcomes :
         deletedRooms' = IF outcome = "ok"
                         THEN deletedRooms \cup {req[r].meeting.livekit_room}
                         ELSE deletedRooms
    /\ req' = [req EXCEPT ![r].pc = "delete"]
    /\ UNCHANGED <<db, ended, created, server>>

\* The delete returns; its result is not read, and the handler responds 200.
EndDelete(r) ==
    /\ req[r].op = "end"
    /\ req[r].pc = "delete"
    /\ \E outcome \in RegistryOutcomes :
         db' = DeleteByCode(db, req[r].meetingId, outcome)
    /\ Respond(r, req[r], EndResponse)
    /\ ended' = [ended EXCEPT ![req[r].meetingId] = TRUE]
    /\ created' = [created EXCEPT ![req[r].meetingId] = 0]
    /\ UNCHANGED <<deletedRooms, server>>

\* ------------------------------------------------------------------ health
HealthResponse == [NoResp EXCEPT !.status = 200, !.ok = TRUE]

\* GET /health: answered in the step it arrives in, no remote call.
Health(r) ==
    /\ server = "listening"
    /\ req[r].pc = "idle"
    /\ Respond(r, [Idle EXCEPT !.op = "health"], HealthResponse)
    /\ UNCHANGED <<db, deletedRooms, ended, created, server>>

\* ------------------------------------------------------------------ connection
\* The response has been delivered and the connection ends; the slot takes
\* the next request.
Close(r) ==
    /\ req[r].pc = "done"
    /\ req' = [req EXCEPT ![r] = Idle]
    /\ UNCHANGED <<db, deletedRooms, ended, created, server>>

\* ------------------------------------------------------------------ shutdown
\* No connection is open: every slot is idle.
NoConnections == \A r \in Reqs : req[r].pc = "idle"

\* SIGTERM or SIGINT: the handler calls server.close(callback); the server
\* stops accepting connections and keeps the open ones.
Signal ==
    /\ server = "listening"
    /\ server' = "closing"
    /\ UNCHANGED <<db, deletedRooms, req, ended, created>>

\* ServerClosed exiting as soon as the signal has been handled.
ServerClosedAtOnce ==
    /\ server = "closing"
    /\ server' = "exited"
    /\ UNCHANGED <<db, deletedRooms, req, ended, created>>

\* The server emits 'close' once its last connection has ended; the
\* callback calls process.exit(0).
ServerClosed ==
    /\ server = "closing"
    /\ NoConnections
    /\ server' = "exited"
    /\ UNCHANGED <<db, deletedRooms, req, ended, created>>

Next ==
    \/ \E r \in Reqs :
          \/ CreateMeeting(r)
          \/ CreateInsert(r)
          \/ CreateToken(r)
          \/ JoinMeeting(r)
          \/ JoinSelect(r)
          \/ JoinToken(r)
          \/ EndMeeting(r)
          \/ EndSelect(r)
          \/ EndDeleteRoom(r)
          \/ EndDelete(r)
          \/ Health(r)
          \/ Close(r)
    \/ Signal
    \/ ServerClosed

Spec == Init /\ [][Next]_vars

\* ------------------------------------------------------------------ steps
\* Request r takes the step its handler makes at position pc.
StepAt(r, op, pc) == req[r].op = op /\ req[r].pc = pc /\ req'[r] # req[r]

\* Request r arrives on route op in this step.
Arrives(r, op) == req[r].pc = "idle" /\ req'[r].op = op

\* A finished request of route op with the given status.
Finished(r, op, status) ==
    req[r].op = op /\ req[r].pc = "done" /\ req[r].resp.status = status

\* ------------------------------------------------------------------ C1
\* C1: every token is scoped to the livekit_room stored for its meeting code:
\* the host token of create-meeting to the room the handler inserted, which
\* is the roomName it returns, and the token of join-meeting, while a record
\* exists for the code, to the livekit_room of that record.
C1_TokensForStoredRoom ==
    [][\A r \in Reqs :
         /\ (StepAt(r, "create", "token") /\ req'[r].resp.token.issued) =>
                /\ req'[r].resp.token.room = req[r].roomName
                /\ req'[r].resp.roomName = req[r].roomName
         /\ (StepAt(r, "join", "token") /\ req'[r].resp.token.issued) =>
                (db'[req[r].meetingId].exists =>
                    req'[r].resp.token.room = db'[req[r].meetingId].livekit_room)]_vars

\* ------------------------------------------------------------------ C2
\* The caller of a join-meeting lookup has neither the password of the
\* code's row nor its host_id.
Stranger(r) ==
    LET row == db[req[r].meetingId] IN
    /\ row.exists
    /\ row.password # req[r].password
    /\ row.host_id # req[r].userId

\* C2: join-meeting never returns a token to a caller who has neither the
\* record's password nor its host_id: when the lookup returns the record the
\* answer is 403 (a record that is inactive or not returned is answered 404
\* before the check), and every token join-meeting returns goes to a caller
\* with the password or the host_id of the record it read.
C2_StrangerGetsNoToken ==
    [][\A r \in Reqs :
         /\ (StepAt(r, "join", "select") /\ Stranger(r)) =>
                /\ req'[r].pc = "done"
                /\ ~req'[r].resp.token.issued
                /\ req'[r].resp.status \in {403, 404}
                /\ req'[r].resp.status = 403 <=>
                       (db[req[r].meetingId].is_active /\ req'[r].error = "")
         /\ (StepAt(r, "join", "token") /\ req'[r].resp.token.issued) =>
                \/ req[r].meeting.password = req[r].password
                \/ req[r].meeting.host_id = req[r].userId]_vars

C2_Witness ==
    \E r \in Reqs :
        /\ Finished(r, "join", 403)
        /\ ~req[r].resp.token.issued
        /\ Stranger(r)
        /\ db[req[r].meetingId].is_active

\* ------------------------------------------------------------------ C3
\* C3: a join-meeting that arrives after an end-meeting for its code has
\* responded 200, with no meeting created for the code since, responds 404.
C3_JoinAfterEndIs404 ==
    [][\A r \in Reqs :
         (StepAt(r, "join", "select") /\ req[r].afterEnd /\ Ended(req[r].meetingId)) =>
             /\ req'[r].pc = "done"
             /\ req'[r].resp.status = 404]_vars

\* ------------------------------------------------------------------ C4
\* The caller of an end-meeting lookup is not the host of the code's row.
NotTheHost(r) ==
    /\ req[r].meetingId \in Codes
    /\ db[req[r].meetingId].exists
    /\ db[req[r].meetingId].host_id # req[r].userId

\* C4: end-meeting by a caller other than the host responds 403 and changes
\* nothing: the table and the remote rooms are as before and the handler
\* has returned, so it deletes nothing later either.
C4_NonHostEndChangesNothing ==
    [][\A r \in Reqs :
         (StepAt(r, "end", "select") /\ NotTheHost(r)) =>
             /\ req'[r].pc = "done"
             /\ req'[r].resp.status = 403
             /\ db' = db
             /\ deletedRooms' = deletedRooms]_vars

C4_Witness ==
    \E r \in Reqs :
        /\ Finished(r, "end", 403)
        /\ NotTheHost(r)
        /\ db[req[r].meetingId].is_active

\* ------------------------------------------------------------------ C5
\* The caller of a join-meeting lookup is the host of the code's active row.
HostOfActive(r) ==
    LET row == db[req[r].meetingId] IN
    row.exists /\ row.is_active /\ row.host_id = req[r].userId

\* C5: the host of an active record is never refused for the password it
\* sends, wrong or absent: its lookup goes on to signing (404 only when the
\* registry call itself fails) and signing ends 200 with isHost true and a
\* room-admin token (500 only when signing throws).
C5_HostBypassesPassword ==
    [][\A r \in Reqs :
         /\ (StepAt(r, "join", "select") /\ HostOfActive(r)) =>
                \/ /\ req'[r].pc = "token"
                   /\ req'[r].isHost
                   /\ req'[r].meeting = db[req[r].meetingId]
                \/ /\ req'[r].resp.status = 404
                   /\ req'[r].error = "registry failure"
         /\ (StepAt(r, "join", "token") /\ req[r].meeting.host_id = req[r].userId) =>
                \/ /\ req'[r].resp.status = 200
                   /\ req'[r].resp.isHost
                   /\ req'[r].resp.token.issued
                   /\ req'[r].resp.token.roomAdmin
                \/ /\ req'[r].resp.status = 500
                   /\ req'[r].resp.error = "signing failure"]_vars

\* The host joined with a password that is not the record's.
C5_Witness ==
    \E r \in Reqs :
        /\ Finished(r, "join", 200)
        /\ req[r].resp.isHost
        /\ req[r].resp.token.issued
        /\ HostOfActive(r)
        /\ req[r].password # db[req[r].meetingId].password

\* ------------------------------------------------------------------ C6
\* C6: a token carries room-admin exactly when it is issued to the host_id of
\* the record: create-meeting stores the creator as host_id and signs its
\* token with room-admin; join-meeting reads the registry's row, reports
\* isHost = (host_id = userId) and signs the token with room-admin = isHost.
C6_RoomAdminIffHost ==
    [][\A r \in Reqs :
         /\ (StepAt(r, "create", "insert") /\ req'[r].pc = "token") =>
                db'[req[r].meetingId].host_id = req[r].userId
         /\ (StepAt(r, "create", "token") /\ req'[r].resp.token.issued) =>
                /\ req'[r].resp.token.roomAdmin
                /\ req'[r].resp.token.identity = req[r].userId
         /\ (StepAt(r, "join", "select") /\ req'[r].pc = "token") =>
                req'[r].meeting = db[req[r].meetingId]
         /\ (StepAt(r, "join", "token") /\ req'[r].resp.token.issued) =>
                /\ req'[r].resp.isHost = (req[r].meeting.host_id = req[r].userId)
                /\ req'[r].resp.token.roomAdmin = req'[r].resp.isHost
                /\ req'[r].resp.token.identity = req[r].userId]_vars

\* A caller who is not the host joined with the record's password.
C6_Witness ==
    \E r \in Reqs :
        /\ Finished(r, "join", 200)
        /\ req[r].resp.token.issued
        /\ ~req[r].resp.isHost
        /\ ~req[r].resp.token.roomAdmin
        /\ db[req[r].meetingId].exists
        /\ db[req[r].meetingId].host_id # req[r].userId
        /\ db[req[r].meetingId].password = req[r].password

\* ------------------------------------------------------------------ C7
\* The code of a join-meeting lookup has no row, or a row with is_active false.
NoActiveRow(r) ==
    ~db[req[r].meetingId].exists \/ ~db[req[r].meetingId].is_active

\* C7: join-meeting for a code with no record, or with an inactive record,
\* responds 404 and issues no token, whatever password and userId it carries.
C7_JoinWithoutActiveRecordIs404 ==
    [][\A r \in Reqs :
         (StepAt(r, "join", "select") /\ NoActiveRow(r)) =>
             /\ req'[r].pc = "done"
             /\ req'[r].resp.status = 404
             /\ ~req'[r].resp.token.issued]_vars

\* The host of an inactive record was answered 404.
C7_Witness ==
    \E r \in Reqs :
        /\ Finished(r, "join", 404)
        /\ db[req[r].meetingId].exists
        /\ ~db[req[r].meetingId].is_active
        /\ db[req[r].meetingId].host_id = req[r].userId

\* ------------------------------------------------------------------ C8
\* C8: what create-meeting returns with 200 is non-empty and the roomName
\* embeds the meetingId; and while no end-meeting has run its delete for the
\* code since the insert, a join-meeting with that code and password and any
\* userId is not refused: its lookup goes on to signing (404 only when the
\* registry call itself fails) and signing returns a token (500 only when
\* signing throws).
C8_JoinAfterCreateSucceeds ==
    [][\A r \in Reqs :
         /\ (StepAt(r, "create", "token") /\ req'[r].resp.status = 200) =>
                /\ req'[r].resp.meetingId # Missing
                /\ req'[r].resp.password # Missing
                /\ req'[r].resp.roomName # NoRoom
                /\ Embeds(req'[r].resp.roomName, req'[r].resp.meetingId)
                /\ req'[r].resp.token.issued
         /\ (/\ StepAt(r, "join", "select")
             /\ created[req[r].meetingId] # 0
             /\ req[r].password = created[req[r].meetingId]) =>
                \/ req'[r].pc = "token"
                \/ /\ req'[r].resp.status = 404
                   /\ req'[r].error = "registry failure"
         /\ (StepAt(r, "join", "token") /\ req[r].password = req[r].meeting.password) =>
                \/ req'[r].resp.status = 200 /\ req'[r].resp.token.issued
                \/ /\ req'[r].resp.status = 500
                   /\ req'[r].resp.error = "signing failure"]_vars

\* A create-meeting responded 200 and another user joined with what it returned.
C8_Witness ==
    \E r1, r2 \in Reqs :
        /\ Finished(r1, "create", 200)
        /\ Finished(r2, "join", 200)
        /\ req[r2].resp.token.issued
        /\ req[r2].meetingId = req[r1].resp.meetingId
        /\ req[r2].password = req[r1].resp.password
        /\ req[r2].userId # req[r1].userId
        /\ req[r2].resp.token.room = req[r1].resp.roomName

\* ------------------------------------------------------------------ C9
\* C9: create-meeting without userId, and join-meeting without meetingId or
\* userId, respond 400 in the step they arrive in: no registry call is
\* awaited, the table is unchanged and no token is issued.
C9_MissingFieldIs400 ==
    [][\A r \in Reqs :
         /\ (Arrives(r, "create") /\ req'[r].userId = Missing) =>
                /\ req'[r].pc = "done"
                /\ req'[r].resp.status = 400
                /\ ~req'[r].resp.token.issued
                /\ db' = db
         /\ (/\ Arrives(r, "join")
             /\ (req'[r].meetingId = Missing \/ req'[r].userId = Missing)) =>
                /\ req'[r].pc = "done"
                /\ req'[r].resp.status = 400
                /\ ~req'[r].resp.token.issued
                /\ db' = db]_vars

C9_Witness ==
    \E r1, r2 \in Reqs :
        /\ Finished(r1, "create", 400)
        /\ req[r1].userId = Missing
        /\ Finished(r2, "join", 400)
        /\ req[r2].meetingId # Missing
        /\ req[r2].userId = Missing

\* ------------------------------------------------------------------ C10
\* The end-meeting lookup of r is for a code with no row, or lacks a field.
NothingToEnd(r) ==
    \/ req[r].meetingId = Missing
    \/ req[r].userId = Missing
    \/ ~db[req[r].meetingId].exists

\* C10: end-meeting responds 403 and changes nothing when the code has no
\* record: a code never created, a request without meetingId or userId, and
\* an end-meeting by the host that arrives after an earlier one for the code
\* responded 200.
C10_EndWithoutRecordIs403 ==
    [][\A r \in Reqs :
         (/\ StepAt(r, "end", "select")
          /\ (NothingToEnd(r) \/ (req[r].afterEnd /\ Ended(req[r].meetingId)))) =>
             /\ req'[r].pc = "done"
             /\ req'[r].resp.status = 403
             /\ db' = db
             /\ deletedRooms' = deletedRooms]_vars

\* ------------------------------------------------------------------ C11
\* The deleteRoom call of the end-meeting r did not remove the room: at the
\* await of the registry delete the room is not among the deleted ones.
RoomDeletionFailed(r) == req[r].meeting.livekit_room \notin deletedRooms

\* C11: in a host-authorised end-meeting the outcome of deleteRoom never ends
\* the handler: it goes on to the registry delete, and when deleteRoom failed
\* the handler still responds 200 {success:true} and the record of the code
\* is absent after the delete.
C11_RoomDeletionFailureSwallowed ==
    [][\A r \in Reqs :
         /\ StepAt(r, "end", "deleteRoom") => req'[r].pc = "delete"
         /\ (StepAt(r, "end", "delete") /\ RoomDeletionFailed(r)) =>
                /\ req'[r].resp.status = 200
                /\ req'[r].resp.success
                /\ ~db'[req[r].meetingId].exists]_vars

\* ------------------------------------------------------------------ C12
\* The code a create-meeting generated is the code of an existing record.
CodeTaken(r) == db[req[r].meetingId].exists

\* C12: a create-meeting whose generated code is the code of an existing
\* record fails at the insert: it responds 500 with no token and the table,
\* hence the existing record's password, host_id and livekit_room, is as
\* before.
C12_DuplicateCodeRejected ==
    [][\A r \in Reqs :
         (StepAt(r, "create", "insert") /\ CodeTaken(r)) =>
             /\ req'[r].pc = "done"
             /\ req'[r].resp.status = 500
             /\ ~req'[r].resp.token.issued
             /\ db' = db]_vars

\* A create-meeting of another user was refused for a duplicate code and the
\* record of the first host is still there.
C12_Witness ==
    \E r \in Reqs, c \in Codes :
        /\ Finished(r, "create", 500)
        /\ req[r].error = "duplicate key"
        /\ db[c].exists
        /\ db[c].is_active
        /\ db[c].host_id # req[r].userId

\* ------------------------------------------------------------------ C13
\* C13: a failed registry call or a failed signing is answered 500 with the
\* error message: the insert of create-meeting that returned an error, the
\* lookup of join-meeting that failed, the delete of end-meeting that left
\* the row in the table, and every signing that issued no token.
C13_RemoteFailureIs500 ==
    [][\A r \in Reqs :
         /\ (StepAt(r, "create", "insert") /\ req'[r].error # "") =>
                /\ req'[r].resp.status = 500
                /\ req'[r].resp.error = req'[r].error
         /\ (StepAt(r, "join", "select") /\ req'[r].error = "registry failure") =>
                req'[r].resp.status = 500
         /\ (StepAt(r, "end", "delete") /\ db'[req[r].meetingId].exists) =>
                req'[r].resp.status = 500
         /\ ((StepAt(r, "create", "token") \/ StepAt(r, "join", "token"))
                /\ ~req'[r].resp.token.issued) =>
                /\ req'[r].resp.status = 500
                /\ req'[r].resp.error = "signing failure"]_vars

\* ------------------------------------------------------------------ C14
\* The insert of the create-meeting r returns an error in this step.
InsertFails(r) == StepAt(r, "create", "insert") /\ req'[r].error # ""

\* What a failed create-meeting answers: 500, the message, nothing else.
NothingReturned(resp) ==
    /\ resp.status = 500
    /\ resp.error # ""
    /\ ~resp.token.issued
    /\ resp.meetingId = Missing
    /\ resp.password = Missing
    /\ resp.roomName = NoRoom

\* C14 as stated: when the insert of create-meeting reports an error the
\* handler responds 500 with no token and no meetingId, password or roomName,
\* and the table holds no row for the generated code.
C14_InsertErrorLeavesNoRow ==
    [][\A r \in Reqs :
         InsertFails(r) =>
             /\ req'[r].pc = "done"
             /\ NothingReturned(req'[r].resp)
             /\ ~db'[req[r].meetingId].exists]_vars

\* C14 amended: when the insert of create-meeting reports an error the
\* handler responds 500 with the error's message, no token and no meetingId,
\* password or roomName, and the table is as it was before the insert: it
\* holds a row for the generated code only when one was there already.
C14_InsertErrorChangesNothing ==
    [][\A r \in Reqs :
         InsertFails(r) =>
             /\ req'[r].pc = "done"
             /\ NothingReturned(req'[r].resp)
             /\ req'[r].resp.error = req'[r].error
             /\ db' = db]_vars

\* A create-meeting was answered 500 for a registry failure, the table empty.
C14_Witness ==
    \E r \in Reqs :
        /\ Finished(r, "create", 500)
        /\ req[r].error = "registry failure"
        /\ NothingReturned(req[r].resp)
        /\ \A c \in Codes : ~db[c].exists

\* ------------------------------------------------------------------ C15
\* C15: create-meeting has no rollback: a successful insert stores an active
\* row with the generated password and room and the caller as host_id, and a
\* signing that throws is answered 500 with the table left as it is.
C15_NoRollback ==
    [][\A r \in Reqs :
         /\ (StepAt(r, "create", "insert") /\ req'[r].pc = "token") =>
                db'[req[r].meetingId] =
                    Row(req[r].password, req[r].roomName, req[r].userId)
         /\ (StepAt(r, "create", "token") /\ ~req'[r].resp.token.issued) =>
                /\ req'[r].resp.status = 500
                /\ req'[r].resp.error = "signing failure"
                /\ db' = db]_vars

\* A create-meeting was answered 500 for the signing and its row is in the
\* table, active.
C15_Witness ==
    \E r \in Reqs, c \in Codes :
        /\ Finished(r, "create", 500)
        /\ req[r].resp.error = "signing failure"
        /\ created[c] # 0
        /\ db[c].exists
        /\ db[c].is_active
        /\ db[c].host_id = req[r].userId
        /\ db[c].password = created[c]
        /\ Embeds(db[c].livekit_room, c)

\* ------------------------------------------------------------------ C16
\* The insert of the create-meeting r succeeds in this step and adds its row.
AddsRow(r) ==
    /\ StepAt(r, "create", "insert")
    /\ req'[r].pc = "token"
    /\ ~db[req[r].meetingId].exists
    /\ db' = [db EXCEPT ![req[r].meetingId] =
                  Row(req[r].password, req[r].roomName, req[r].userId)]

\* The delete of the host-authorised end-meeting r removes the code's row.
RemovesRow(r) ==
    /\ StepAt(r, "end", "delete")
    /\ req[r].meeting.host_id = req[r].userId
    /\ req'[r].resp.status = 200
    /\ db' = [db EXCEPT ![req[r].meetingId] = NoRow]

OtherEndResponded(r) ==
    /\ ~req[r].lookupAfterEnd
    /\ \E r2 \in Reqs \ {r} :
         /\ Finished(r2, "end", 200)
         /\ req[r2].meetingId = req[r].meetingId
         /\ req[r2].userId = req[r].userId

\* C17: every end-meeting that passed the host check responds 200
\* {success:true}, never 500, and when two such requests of the host for one
\* code overlap the record is absent once the second has run its delete.
C17_ConcurrentEndsBothSucceed ==
    [][\A r \in Reqs :
         StepAt(r, "end", "delete") =>
             /\ req'[r].resp.status = 200
             /\ req'[r].resp.success
             /\ OtherEndResponded(r) => ~db'[req[r].meetingId].exists]_vars

\* ------------------------------------------------------------------ C18
\* C18: once an end-meeting for the code has responded 200 and the record is
\* gone, with no meeting created for the code since, no join-meeting for the
\* code is answered with a token, a join-meeting that read the record before
\* the delete included.
C18_NoTokenAfterEnd ==
    [][\A r \in Reqs :
         (/\ StepAt(r, "join", "token")
          /\ Ended(req[r].meetingId)
          /\ ~db[req[r].meetingId].exists) =>
             ~req'[r].resp.token.issued]_vars

\* ------------------------------------------------------------------ C19
\* The handler of request r is suspended at an await.
InFlight(r) == req[r].pc \notin {"idle", "done"}

\* A remote call of request r returns or throws and its handler runs on.
Returns(r) ==
    \/ CreateInsert(r)
    \/ CreateToken(r)
    \/ JoinSelect(r)
    \/ JoinToken(r)
    \/ EndSelect(r)
    \/ EndDeleteRoom(r)
    \/ EndDelete(r)

\* The awaits a handler at pc still has before it has responded, at most.
AwaitsLeft(pc) ==
    CASE pc = "select" -> 3
      [] pc \in {"insert", "deleteRoom"} -> 2
      [] pc \in {"token", "delete"} -> 1
      [] OTHER -> 0

\* C19: a request suspended at an await can always go on when its remote call
\* returns or throws, whatever the outcome; each such step is the only thing
\* that moves the request and leaves it with fewer awaits before its
\* response, so a request whose remote calls all return or throw responds
\* after at most three of them; a response is sent exactly when the handler
\* ends and is not followed by another; and no step ends in the process-level
\* uncaughtException/unhandledRejection handlers.
C19_EveryRequestGetsOneResponse ==
    /\ [](\A r \in Reqs : InFlight(r) => ENABLED Returns(r))
    /\ [](server # "crashed")
    /\ [][\A r \in Reqs :
            /\ (InFlight(r) /\ req'[r] # req[r]) =>
                   /\ Returns(r)
                   /\ AwaitsLeft(req'[r].pc) < AwaitsLeft(req[r].pc)
                   /\ req'[r].pc # "idle"
            /\ (req'[r].pc = "done") <=> (req'[r].resp.status # 0)
            /\ (req[r].pc = "done" /\ req'[r] # req[r]) => req'[r] = Idle]_vars

\* An end-meeting responded 200 although its deleteRoom call threw, and a
\* join-meeting responded 500 for a signing that threw.
C19_Witness ==
    \E r1, r2 \in Reqs :
        /\ Finished(r1, "end", 200)
        /\ deletedRooms = {}
        /\ Finished(r2, "join", 500)
        /\ server = "listening"

\* ------------------------------------------------------------------ C20
\* C20: the process exits with code 0 only from a server that a signal has
\* put to closing and that has no connection left: while a request is in
\* flight or its response is still being delivered the process does not
\* exit, and a request in flight when the signal arrived goes on to its
\* response.
C20_ExitOnlyAfterServerClosed ==
    /\ [](\A r \in Reqs : (server = "closing" /\ InFlight(r)) => ENABLED Returns(r))
    /\ [](server = "exited" => NoConnections)
    /\ [][/\ server' = "exited" =>
               (server = "exited" \/ (server = "closing" /\ NoConnections))
          /\ server = "closing" => server' \in {"closing", "exited"}
          /\ \A r \in Reqs :
               (server = "closing" /\ req[r].pc # "idle") =>
                   /\ server' # "exited"
                   /\ req'[r].op = req[r].op \/ req'[r] = Idle]_vars

\* The server is closing with a join-meeting still awaiting its token (no
\* request arrives once the server is closing, so it was in flight when the
\* signal arrived) and another request answered but not yet closed.
C20_Witness ==
    \E r1, r2 \in Reqs :
        /\ server = "closing"
        /\ req[r1].op = "join"
        /\ req[r1].pc = "token"
        /\ Finished(r2, "create", 200)

====
